---- MODULE Spec2Model ----
\* Model of xyz_tablestore.store.Store: the conditional upsert protocol over
\* the backend's put_row / update_row / get_row primitives, and the
\* dual-mode (page number / continuation token) search pagination.
EXTENDS Integers, Sequences, FiniteSets, TLC

\* ---------------------------------------------------------------------
\* Bounds of the model
\* ---------------------------------------------------------------------
MaxCalls == 2
MaxVal == 2
MaxPageSize == 3
MaxPageNo == 3
MaxTotal == 7

\* ---------------------------------------------------------------------
\* Python values
\* ---------------------------------------------------------------------
\* None is the empty tuple, any other value v is the one-element tuple <<v>>.
None == <<>>
Some(v) == <<v>>
IsNone(o) == o = <<>>
Val(o) == o[1]

\* A dict is a function from its keys; {} is the function of empty domain.
EmptyDict == [k \in {} |-> 0]
\* {**a, **b} and a.update(b): b's entries override a's.
Merge(a, b) == [k \in (DOMAIN a) \cup (DOMAIN b) |-> IF k \in DOMAIN b THEN b[k] ELSE a[k]]
\* d without the keys of ks (dict.pop for each of them).
Without(d, ks) == [k \in (DOMAIN d) \ ks |-> d[k]]

\* Column names in the order a dict of the model enumerates them.
ColSeq == <<"id", "x", "s", "t", "c">>
RECURSIVE ItemsFrom(_, _)
ItemsFrom(d, i) ==
    IF i > Len(ColSeq) THEN <<>>
    ELSE (IF ColSeq[i] \in DOMAIN d THEN << <<ColSeq[i], d[ColSeq[i]]>> >> ELSE <<>>)
         \o ItemsFrom(d, i + 1)
\* list(d.items())
Items(d) == ItemsFrom(d, 1)

\* ---------------------------------------------------------------------
\* Store
\* ---------------------------------------------------------------------
\* Store.primary_key_schema = [('id', 'STRING')]; self.pks are its names.
pks == <<"id">>
PkSet == {pks[i] : i \in 1..Len(pks)}

Calls == 1..MaxCalls
Keys == {1}
Vals == 1..MaxVal

\* ---------------------------------------------------------------------
\* Backend errors
\* ---------------------------------------------------------------------
\* Error messages are sequences of words, so that str.startswith is computed.
MsgConditionFail == <<"Condition", "check", "failed.">>
MsgDuplicated == <<"Duplicated", "attribute", "column", "name", "with", "primary", "key", "column">>
MsgBusy == <<"Server", "is", "busy.">>
DuplicatedPrefix == <<"Duplicated", "attribute", "column", "name">>

startswith(s, prefix) ==
    /\ Len(s) >= Len(prefix)
    /\ SubSeq(s, 1, Len(prefix)) = prefix

ServiceError(code, message) == [type |-> "OTSServiceError", code |-> code, message |-> message]
\* What the backend answers to a conditional put on a row that exists:
\* the precondition failure, whatever its message text.
RowExistsErrors ==
    { ServiceError("OTSConditionCheckFail", m) : m \in {MsgConditionFail, MsgDuplicated} }
\* What the backend may answer to any call: a rejected request, an
\* overloaded server, a transport failure raised by the client library.
OtherErrors ==
    { ServiceError("OTSParameterInvalid", MsgDuplicated),
      ServiceError("OTSServerBusy", MsgBusy),
      [type |-> "OTSClientError"] }
\* cond[k] of a missing key, were it evaluated without the membership test
KeyErrorInstead == [type |-> "KeyError"]
ValueError == [type |-> "ValueError"]

IsRowExists(e) == e.type = "OTSServiceError" /\ e.code = "OTSConditionCheckFail"

VARIABLES
    table,      \* backend table: key -> None or Some(attribute columns)
    pc,         \* position of each upsert call
    args,       \* arguments of each upsert call
    ret,        \* what each upsert call returned or raised
    path,       \* branch each call took: "none", "insert", "update"
    putCalls,   \* put_row calls the backend received from each call
    updCalls,   \* update_row calls the backend received from each call
    fault,      \* error the backend answered to the call's put_row, if any
    ufault,     \* error the backend answered to the call's update_row, if any
    existed,    \* whether the row existed when the call started
    updRow,     \* the Row each call sent to update_row
    lastOk,     \* key -> put fields of the latest upsert that returned
    got,        \* result of the latest get still current, per key
    sargs,      \* arguments of the latest search call
    sbackend,   \* what the backend answered (or would answer) to it
    sout,       \* outcome of the latest search call
    spc         \* "idle", or "done" once the search call has returned

uvars == <<table, pc, args, ret, path, putCalls, updCalls, fault, ufault, existed, updRow, lastOk, got>>

NoArgs == [cond |-> EmptyDict, put |-> EmptyDict, set_on_insert |-> EmptyDict, kwargs |-> EmptyDict]
Pending == [kind |-> "pending"]
Ack == [kind |-> "ack"]
ReturnNone == [kind |-> "None"]
Raise(e) == [kind |-> "raise", err |-> e]
NoRow == [primary_key |-> <<>>, attribute_columns |-> EmptyDict]

\* ---------------------------------------------------------------------
\* Store.upsert, local computations
\* ---------------------------------------------------------------------
\* for k in self.pks: if k not in cond: raise ValueError
MissingPk(cond) == \E i \in 1..Len(pks) : pks[i] \notin DOMAIN cond

\* put after "if k in put: put.pop(k)" for every primary-key field
PutFields(put) == Without(put, PkSet)

\* primary_key.append((k, cond[k]))
PrimaryKey(cond) == [i \in 1..Len(pks) |-> <<pks[i], cond[pks[i]]>>]

\* insert_attrs = {**cond, **set_on_insert, **put}, updated with the
\* increment values when given
InsertAttrs(a) ==
    LET base == Merge(Merge(a.cond, a.set_on_insert), PutFields(a.put))
    IN IF "increment" \in DOMAIN a.kwargs THEN Merge(base, a.kwargs["increment"]) ELSE base

InsertRow(a) == [primary_key |-> PrimaryKey(a.cond), attribute_columns |-> InsertAttrs(a)]

\* dict(put=put, **kwargs)
ActionLists(a) == Merge([n \in {"put"} |-> PutFields(a.put)], a.kwargs)

\* (k, v) of cond for the k that are not primary-key fields
CondPairs(cond) == Items(Without(cond, PkSet))

\* attribute_columns of the update: the non-empty action lists, then the
\* non-key condition fields appended to 'put'
UpdateColumnsWithInsertOnly(a) ==
    LET al == ActionLists([a EXCEPT !.put = Merge(a.set_on_insert, a.put)])
        named == [n \in {m \in DOMAIN al : al[m] # EmptyDict} |->
                    IF n \in {"put", "increment"} THEN Items(al[n]) ELSE al[n]]
        extra == CondPairs(a.cond)
    IN IF extra = <<>> THEN named
       ELSE Merge(named, [n \in {"put"} |->
                (IF "put" \in DOMAIN named THEN named["put"] ELSE <<>>) \o extra])
UpdateColumns(a) ==
    LET al == ActionLists(a)
        named == [n \in {m \in DOMAIN al : al[m] # EmptyDict} |->
                    IF n \in {"put", "increment"} THEN Items(al[n]) ELSE al[n]]
        extra == CondPairs(a.cond)
    IN IF extra = <<>> THEN named
       ELSE Merge(named, [n \in {"put"} |->
                (IF "put" \in DOMAIN named THEN named["put"] ELSE <<>>) \o extra])

UpdateRowOf(a) == [primary_key |-> PrimaryKey(a.cond), attribute_columns |-> UpdateColumns(a)]

\* except OTSServiceError as e: continue with the update when
\* e.message.startswith('Duplicated attribute column name'), else raise.
\* Any other exception type is not caught.
Swallowed(e) ==
    /\ e.type = "OTSServiceError"
    /\ startswith(e.message, DuplicatedPrefix)

\* ---------------------------------------------------------------------
\* Backend primitives
\* ---------------------------------------------------------------------
KeyOf(row) == row.primary_key[1][2]

RECURSIVE ApplyPut(_, _)
ApplyPut(attrs, pairs) ==
    IF pairs = <<>> THEN attrs
    ELSE ApplyPut(Merge(attrs, [n \in {Head(pairs)[1]} |-> Head(pairs)[2]]), Tail(pairs))

RECURSIVE ApplyIncrement(_, _)
ApplyIncrement(attrs, pairs) ==
    IF pairs = <<>> THEN attrs
    ELSE LET n == Head(pairs)[1]
             old == IF n \in DOMAIN attrs THEN attrs[n] ELSE 0
         IN ApplyIncrement(Merge(attrs, [m \in {n} |-> old + Head(pairs)[2]]), Tail(pairs))

\* update_row under RowExistenceExpectation.IGNORE: the row is created
\* when absent, then the action lists are applied.
Updated(rowOpt, cols) ==
    LET old == IF IsNone(rowOpt) THEN EmptyDict ELSE Val(rowOpt)
        afterPut == IF "put" \in DOMAIN cols THEN ApplyPut(old, cols["put"]) ELSE old
    IN IF "increment" \in DOMAIN cols THEN ApplyIncrement(afterPut, cols["increment"]) ELSE afterPut

\* ---------------------------------------------------------------------
\* Inputs of upsert
\* ---------------------------------------------------------------------
CondInputs ==
    {EmptyDict}
    \cup { [n \in {"id"} |-> k] : k \in Keys }
    \cup { [n \in {"id", "t"} |-> IF n = "id" THEN k ELSE 1] : k \in Keys }
    \cup { [n \in {"t"} |-> 1] }
PutInputs ==
    {EmptyDict}
    \cup { [n \in {"x"} |-> v] : v \in Vals }
    \cup { [n \in {"id", "x"} |-> IF n = "id" THEN 1 ELSE 1] }
UpsertInputs ==
    { [cond |-> c, put |-> p, set_on_insert |-> EmptyDict, kwargs |-> EmptyDict] :
        c \in CondInputs, p \in PutInputs }

\* ---------------------------------------------------------------------
\* Initial state
\* ---------------------------------------------------------------------
UInit ==
    /\ table = [k \in Keys |-> None]
    /\ pc = [p \in Calls |-> "idle"]
    /\ args = [p \in Calls |-> NoArgs]
    /\ ret = [p \in Calls |-> Pending]
    /\ path = [p \in Calls |-> "none"]
    /\ putCalls = [p \in Calls |-> 0]
    /\ updCalls = [p \in Calls |-> 0]
    /\ fault = [p \in Calls |-> None]
    /\ ufault = [p \in Calls |-> None]
    /\ existed = [p \in Calls |-> FALSE]
    /\ updRow = [p \in Calls |-> NoRow]
    /\ lastOk = [k \in Keys |-> None]
    /\ got = [k \in Keys |-> None]

\* ---------------------------------------------------------------------
\* Store.upsert, as the steps between its backend calls
\* ---------------------------------------------------------------------
\* Entry of upsert up to the put_row call: validation of the primary key.
UpsertCall(p, a) ==
    /\ pc[p] = "idle"
    /\ args' = [args EXCEPT ![p] = a]
    /\ IF MissingPk(a.cond)
       THEN /\ pc' = [pc EXCEPT ![p] = "done"]
            /\ ret' = [ret EXCEPT ![p] = Raise(ValueError)]
            /\ existed' = existed
       ELSE /\ pc' = [pc EXCEPT ![p] = "put_row"]
            /\ ret' = ret
            /\ existed' = [existed EXCEPT ![p] = ~IsNone(table[a.cond["id"]])]
    /\ UNCHANGED <<table, path, putCalls, updCalls, fault, ufault, updRow, lastOk, got>>

\* What upsert does with an error of its put_row call.
AfterPutError(p, e) ==
    /\ fault' = [fault EXCEPT ![p] = Some(e)]
    /\ IF Swallowed(e)
       THEN IF UpdateColumns(args[p]) = EmptyDict
            THEN /\ pc' = [pc EXCEPT ![p] = "done"]
                 /\ ret' = [ret EXCEPT ![p] = ReturnNone]
                 /\ path' = [path EXCEPT ![p] = "update"]
                 /\ updRow' = updRow
            ELSE /\ pc' = [pc EXCEPT ![p] = "update_row"]
                 /\ ret' = ret
                 /\ path' = [path EXCEPT ![p] = "update"]
                 /\ updRow' = [updRow EXCEPT ![p] = UpdateRowOf(args[p])]
       ELSE /\ pc' = [pc EXCEPT ![p] = "done"]
            /\ ret' = [ret EXCEPT ![p] = Raise(e)]
            /\ path' = path
            /\ updRow' = updRow

\* put_row(row, EXPECT_NOT_EXIST) accepted: the row is written, upsert
\* returns the backend's acknowledgment.
PutRowOk(p) ==
    /\ pc[p] = "put_row"
    /\ LET row == InsertRow(args[p])
           k == KeyOf(row)
       IN /\ IsNone(table[k])
          /\ table' = [table EXCEPT ![k] = Some(row.attribute_columns)]
          /\ lastOk' = [lastOk EXCEPT ![k] = Some(PutFields(args[p].put))]
          /\ got' = [got EXCEPT ![k] = None]
    /\ putCalls' = [putCalls EXCEPT ![p] = @ + 1]
    /\ pc' = [pc EXCEPT ![p] = "done"]
    /\ ret' = [ret EXCEPT ![p] = Ack]
    /\ path' = [path EXCEPT ![p] = "insert"]
    /\ UNCHANGED <<args, updCalls, fault, ufault, existed, updRow>>

\* put_row rejected because the row exists.
PutRowExists(p) ==
    /\ pc[p] = "put_row"
    /\ ~IsNone(table[KeyOf(InsertRow(args[p]))])
    /\ \E e \in RowExistsErrors : AfterPutError(p, e)
    /\ putCalls' = [putCalls EXCEPT ![p] = @ + 1]
    /\ UNCHANGED <<table, args, updCalls, ufault, existed, lastOk, got>>

\* put_row failed for another reason.
PutRowFails(p) ==
    /\ pc[p] = "put_row"
    /\ \E e \in OtherErrors : AfterPutError(p, e)
    /\ putCalls' = [putCalls EXCEPT ![p] = @ + 1]
    /\ UNCHANGED <<table, args, updCalls, ufault, existed, lastOk, got>>

\* update_row(row, IGNORE) accepted.
UpdateRowOk(p) ==
    /\ pc[p] = "update_row"
    /\ LET k == KeyOf(updRow[p])
       IN /\ table' = [table EXCEPT ![k] = Some(Updated(table[k], updRow[p].attribute_columns))]
          /\ lastOk' = [lastOk EXCEPT ![k] = Some(PutFields(args[p].put))]
          /\ got' = [got EXCEPT ![k] = None]
    /\ updCalls' = [updCalls EXCEPT ![p] = @ + 1]
    /\ pc' = [pc EXCEPT ![p] = "done"]
    /\ ret' = [ret EXCEPT ![p] = Ack]
    /\ UNCHANGED <<args, path, putCalls, fault, ufault, existed, updRow>>

\* update_row failed: the error is not caught.
UpdateRowFails(p) ==
    /\ pc[p] = "update_row"
    /\ \E e \in OtherErrors :
          /\ ret' = [ret EXCEPT ![p] = Raise(e)]
          /\ ufault' = [ufault EXCEPT ![p] = Some(e)]
    /\ updCalls' = [updCalls EXCEPT ![p] = @ + 1]
    /\ pc' = [pc EXCEPT ![p] = "done"]
    /\ UNCHANGED <<table, args, path, putCalls, fault, existed, updRow, lastOk, got>>

\* Store.row2dict: every primary-key pair, then every attribute column,
\* is entered in the dict (the values of this model are integers, which
\* decode returns as they are).
RECURSIVE PairsToDict(_)
PairsToDict(pairs) ==
    IF pairs = <<>> THEN EmptyDict
    ELSE Merge([n \in {Head(pairs)[1]} |-> Head(pairs)[2]], PairsToDict(Tail(pairs)))
row2dict(row) == Merge(PairsToDict(row.primary_key), row.attribute_columns)

\* get_row of the backend: the stored row, or None.
get_row(k) ==
    IF IsNone(table[k]) THEN None
    ELSE Some([primary_key |-> << <<"id", k>> >>, attribute_columns |-> Val(table[k])])

\* Store.get
Get(k) ==
    /\ IsNone(got[k])
    /\ ~IsNone(get_row(k))
    /\ got' = [got EXCEPT ![k] = Some(row2dict(Val(get_row(k))))]
    /\ UNCHANGED <<table, pc, args, ret, path, putCalls, updCalls, fault, ufault, existed, updRow, lastOk>>

\* ---------------------------------------------------------------------
\* Store.search
\* ---------------------------------------------------------------------
\* Store.MAX_OFFSET
MAX_OFFSET == 10000

svars == <<sargs, sbackend, sout, spc>>

BothError == [type |-> "ValueError", message |-> "Cannot use both page_no and token"]
\* The reported page number without the "+ 1".
TooLargeErrorOffByOne(page_size) ==
    [type |-> "ValueError", message |-> "Page number too large",
     max_page_no |-> MAX_OFFSET \div page_size]
\* "Page number too large. Max allowed page_no is {MAX_OFFSET // page_size + 1}"
TooLargeError(page_size) ==
    [type |-> "ValueError", message |-> "Page number too large",
     max_page_no |-> (MAX_OFFSET \div page_size) + 1]

\* if page_size < 1: page_size = 10
PageSizeOf(a) == IF a.page_size < 1 THEN 10 ELSE a.page_size

\* page_no after "if page_no is None: page_no = 1; if page_no < 1: page_no = 1"
PageNoOf(a) ==
    IF IsNone(a.page_no) THEN 1
    ELSE IF Val(a.page_no) < 1 THEN 1 ELSE Val(a.page_no)

\* offset = (page_no - 1) * page_size
OffsetOf(a) == (PageNoOf(a) - 1) * PageSizeOf(a)

\* The bound test written with >= in place of >.
OffsetRejectedAtBound(a) == a.max_page_no_limit /\ OffsetOf(a) >= MAX_OFFSET
\* max_page_no_limit and offset > self.MAX_OFFSET
OffsetRejected(a) == a.max_page_no_limit /\ OffsetOf(a) > MAX_OFFSET

\* The SearchQuery sent to the backend.
SearchQueryOf(a) ==
    IF ~IsNone(a.next_token)
    THEN [limit |-> PageSizeOf(a), next_token |-> Val(a.next_token)]
    ELSE [offset |-> OffsetOf(a), limit |-> PageSizeOf(a)]

\* The page count with floor division in place of math.ceil.
TotalPagesFloor(total, page_size) ==
    IF total > 0 THEN total \div page_size ELSE 1
\* math.ceil(total / page_size) if total > 0 else 1
TotalPages(total, page_size) ==
    IF total > 0 THEN (total + page_size - 1) \div page_size ELSE 1

\* bool(rs.next_token): None and the empty token are false
Truthy(tok) == ~IsNone(tok) /\ Val(tok) # ""

RECURSIVE ItemsOf(_)
ItemsOf(rows) ==
    IF rows = <<>> THEN <<>> ELSE <<row2dict(Head(rows))>> \o ItemsOf(Tail(rows))

\* The result dict assembled from the backend's answer rs.
ResultOf(a, rs) ==
    LET total_pages == TotalPages(rs.total_count, PageSizeOf(a))
        result == [items |-> ItemsOf(rs.rows),
                   total |-> rs.total_count,
                   page_size |-> PageSizeOf(a),
                   next_token |-> rs.next_token,
                   has_more |-> Truthy(rs.next_token),
                   total_pages |-> total_pages]
    IN IF IsNone(a.next_token)
       THEN Merge(result, [page_no |-> Some(PageNoOf(a)),
                           has_prev |-> PageNoOf(a) > 1,
                           has_next |-> PageNoOf(a) < total_pages,
                           can_jump_to_page |-> OffsetOf(a) <= MAX_OFFSET])
       ELSE Merge(result, [page_no |-> None, can_jump_to_page |-> FALSE])

\* The exclusion test written on truthiness: "if page_no and next_token".
BothGivenTruthy(a) ==
    /\ ~IsNone(a.page_no) /\ Val(a.page_no) # 0
    /\ Truthy(a.next_token)
\* page_no is not None and next_token is not None
BothGiven(a) == ~IsNone(a.page_no) /\ ~IsNone(a.next_token)

\* Store.search: outcome of one call with arguments a when the backend
\* answers b to the search call (if one is issued).
search(a, b) ==
    IF BothGiven(a)
    THEN [raised |-> Some(BothError), calls |-> 0, query |-> None, result |-> None]
    ELSE IF IsNone(a.next_token) /\ OffsetRejected(a)
    THEN [raised |-> Some(TooLargeError(PageSizeOf(a))), calls |-> 0, query |-> None,
          result |-> None]
    ELSE IF b.ok
    THEN [raised |-> None, calls |-> 1, query |-> Some(SearchQueryOf(a)),
          result |-> Some(ResultOf(a, b.rs))]
    ELSE [raised |-> Some(b.err), calls |-> 1, query |-> Some(SearchQueryOf(a)),
          result |-> None]

\* Inputs of search
PageSizes == ((-1)..MaxPageSize) \cup {50, MAX_OFFSET, MAX_OFFSET + 1}
PageNos(ps) ==
    {None}
    \cup { Some(n) : n \in (-1)..MaxPageNo }
    \cup { Some((MAX_OFFSET \div (IF ps < 1 THEN 10 ELSE ps)) + d) : d \in 0..2 }
Tokens == {None, Some(""), Some("t1")}
SearchInputs ==
    UNION { { [page_no |-> pn, page_size |-> ps, next_token |-> tok, max_page_no_limit |-> lim] :
                pn \in PageNos(ps), tok \in Tokens, lim \in BOOLEAN } : ps \in PageSizes }

\* Answers of the backend's search primitive
Row1 == [primary_key |-> << <<"id", 1>> >>, attribute_columns |-> [n \in {"x"} |-> 1]]
Totals == (0..MaxTotal) \cup {MAX_OFFSET, MAX_OFFSET + 1}
SearchAnswers ==
    { [ok |-> TRUE, rs |-> [total_count |-> t, next_token |-> tok, rows |-> rows]] :
        t \in Totals, tok \in Tokens, rows \in {<<>>, <<Row1>>} }
    \cup { [ok |-> FALSE, err |-> e] : e \in {ServiceError("OTSServerBusy", MsgBusy)} }

NoSearch == [page_no |-> None, page_size |-> 10, next_token |-> None, max_page_no_limit |-> TRUE]
NoAnswer == [ok |-> FALSE, err |-> [type |-> "none"]]
NoOutcome == [raised |-> None, calls |-> 0, query |-> None, result |-> None]

SInit ==
    /\ sargs = NoSearch
    /\ sbackend = NoAnswer
    /\ sout = NoOutcome
    /\ spc = "idle"

\* One call of Store.search.
Search(a, b) ==
    /\ spc = "idle"
    /\ sargs' = a
    /\ sbackend' = b
    /\ sout' = search(a, b)
    /\ spc' = "done"

\* The caller drops the result; nothing of a call outlives it.
SearchReturn ==
    /\ spc = "done"
    /\ sargs' = NoSearch
    /\ sbackend' = NoAnswer
    /\ sout' = NoOutcome
    /\ spc' = "idle"

SNext ==
    \/ spc = "idle" /\ \E a \in SearchInputs : \E b \in SearchAnswers : Search(a, b)
    \/ SearchReturn

\* ---------------------------------------------------------------------
\* Store.find
\* ---------------------------------------------------------------------
MaxPages == 3
MaxPageLen == 2

VARIABLES
    fpc,        \* "idle", "running" (between two search calls) or "done"
    fargs,      \* the arguments find passes on to search
    fdata,      \* the backend's result: the number of rows of each of its pages
    ftoken,     \* rs['next_token'] of the latest response
    fyield,     \* the items yielded so far
    fcalls,     \* backend search calls issued so far
    fqueries,   \* the search queries the backend received
    fraised,    \* the exception find raised, if any
    ffault      \* whether the backend failed a search call

fvars == <<fpc, fargs, fdata, ftoken, fyield, fcalls, fqueries, fraised, ffault>>

\* search(*args, **kwargs, next_token=...) when kwargs already has next_token
DuplicateKeyword == [type |-> "TypeError", message |-> "multiple values for keyword argument"]

\* The continuation tokens the backend hands out, one after each page but the last.
TokenNames == <<"t1", "t2", "t3", "t4", "t5", "t6">>
RowOf(n) == [primary_key |-> << <<"id", n>> >>, attribute_columns |-> [c \in {"x"} |-> 1]]

RECURSIVE SumTo(_, _)
SumTo(lens, i) == IF i = 0 THEN 0 ELSE lens[i] + SumTo(lens, i - 1)

\* The page a query asks for: the one after the page that handed out its
\* token, the first page for a query without a token the backend handed out.
PageAsked(q) ==
    IF "next_token" \in DOMAIN q /\ \E i \in 1..Len(TokenNames) : TokenNames[i] = q.next_token
    THEN (CHOOSE i \in 1..Len(TokenNames) : TokenNames[i] = q.next_token) + 1
    ELSE 1

\* Answer of the backend's search primitive to query q over the result lens.
PageAnswer(lens, q) ==
    LET i == PageAsked(q)
    IN [ok |-> TRUE,
        rs |-> [total_count |-> SumTo(lens, Len(lens)),
                next_token |-> IF i < Len(lens) THEN Some(TokenNames[i]) ELSE None,
                rows |-> IF i <= Len(lens)
                        THEN [j \in 1..lens[i] |-> RowOf(SumTo(lens, i - 1) + j)]
                        ELSE <<>>]]
BackendFailure == [ok |-> FALSE, err |-> ServiceError("OTSServerBusy", MsgBusy)]

\* Arguments of the follow-up call: the caller's, with the latest token.
FollowUpArgs(a, tok) == [a EXCEPT !.next_token = tok]

FInit ==
    /\ fpc = "idle"
    /\ fargs = NoSearch
    /\ fdata = <<>>
    /\ ftoken = None
    /\ fyield = <<>>
    /\ fcalls = 0
    /\ fqueries = <<>>
    /\ fraised = None
    /\ ffault = FALSE

\* What find does with the outcome o of a search call.
AfterSearch(o) ==
    /\ fcalls' = fcalls + o.calls
    /\ fqueries' = IF o.calls = 1 THEN Append(fqueries, Val(o.query)) ELSE fqueries
    /\ IF IsNone(o.raised)
       THEN /\ fyield' = fyield \o Val(o.result).items
            /\ ftoken' = Val(o.result).next_token
            /\ fpc' = "running"
            /\ fraised' = None
       ELSE /\ fyield' = fyield
            /\ ftoken' = ftoken
            /\ fpc' = "done"
            /\ fraised' = o.raised

\* rs = self.search(*args, **kwargs); yield from rs['items']
FindStart(a, lens, fails) ==
    /\ fpc = "idle"
    /\ fargs' = a
    /\ fdata' = lens
    /\ ffault' = (fails /\ search(a, BackendFailure).calls = 1)
    /\ AfterSearch(search(a, IF fails THEN BackendFailure
                             ELSE PageAnswer(lens, SearchQueryOf(a))))

\* while rs['next_token']: rs = self.search(*args, **kwargs,
\* next_token=rs['next_token']); yield from rs['items']
FindNext(fails) ==
    /\ fpc = "running"
    /\ Truthy(ftoken)
    /\ IF ~IsNone(fargs.next_token)
       THEN /\ fraised' = Some(DuplicateKeyword)
            /\ fpc' = "done"
            /\ UNCHANGED <<ftoken, fyield, fcalls, fqueries, ffault>>
       ELSE LET a == FollowUpArgs(fargs, ftoken)
            IN /\ ffault' = (ffault \/ (fails /\ search(a, BackendFailure).calls = 1))
               /\ AfterSearch(search(a, IF fails THEN BackendFailure
                                        ELSE PageAnswer(fdata, SearchQueryOf(a))))
    /\ UNCHANGED <<fargs, fdata>>

\* The loop ends on a response without a token.
FindStop ==
    /\ fpc = "running"
    /\ ~Truthy(ftoken)
    /\ fpc' = "done"
    /\ UNCHANGED <<fargs, fdata, ftoken, fyield, fcalls, fqueries, fraised, ffault>>

FNext ==
    \/ /\ fpc = "idle"
       /\ \E pn \in {None, Some(1), Some(2)}, ps \in {0, 2}, tok \in {None, Some("t0")} :
          \E lens \in UNION { [1..n -> 0..MaxPageLen] : n \in 1..MaxPages } :
          \E fails \in BOOLEAN :
             FindStart([page_no |-> pn, page_size |-> ps, next_token |-> tok,
                        max_page_no_limit |-> TRUE], lens, fails)
    \/ \E fails \in BOOLEAN : FindNext(fails)
    \/ FindStop

\* ---------------------------------------------------------------------
\* Store.all
\* ---------------------------------------------------------------------
MaxRows == 3
MaxBatchIn == 2

VARIABLES
    kpc,        \* "idle", "loop" (before a get_range call) or "done"
    kbatch,     \* the batch_size argument
    krows,      \* number of rows of the table, whose keys are 1..krows
    kstart,     \* start_pk of the next get_range call
    kvisited,   \* keys of the rows yielded so far
    klimits     \* the limit of every get_range call issued

kvars == <<kpc, kbatch, krows, kstart, kvisited, klimits>>

\* INF_MIN: below every key
INF_MIN == 0

\* The clamp without its upper bound.
BatchLimitUncapped(batch_size) == IF batch_size < 1 THEN 100 ELSE batch_size
\* if batch_size < 1: batch_size = 100; if batch_size > 500: batch_size = 500
BatchLimit(batch_size) ==
    IF batch_size < 1 THEN 100
    ELSE IF batch_size > 500 THEN 500 ELSE batch_size

\* Keys of the rows of the range [start, INF_MAX), ascending.
\* What get_range may answer: the first m rows of the range, m at most the
\* limit, and the key of the first row left as next_start_pk (None when no
\* row is left).
RangeAnswers(n, start, limit) ==
    LET rem == {k \in 1..n : k >= start}
        first == CHOOSE k \in rem : \A j \in rem : k <= j
    IN { [rows |-> [j \in 1..m |-> first + j - 1],
          next_start_pk |-> IF m < Cardinality(rem) THEN Some(first + m) ELSE None] :
            m \in 0..(IF Cardinality(rem) < limit THEN Cardinality(rem) ELSE limit) }

KInit ==
    /\ kpc = "idle"
    /\ kbatch = 100
    /\ krows = 0
    /\ kstart = INF_MIN
    /\ kvisited = <<>>
    /\ klimits = <<>>

\* Entry of all(): the clamp and the initial range.
ScanStart(batch_size, n) ==
    /\ kpc = "idle"
    /\ kbatch' = batch_size
    /\ krows' = n
    /\ kstart' = INF_MIN
    /\ kpc' = "loop"
    /\ UNCHANGED <<kvisited, klimits>>

\* One turn of the loop: get_range, "if not rows: break", the rows are
\* yielded, "if not next_start_pk: break", start_pk = next_start_pk.
ScanBatch(ans) ==
    /\ kpc = "loop"
    /\ klimits' = Append(klimits, BatchLimit(kbatch))
    /\ IF ans.rows = <<>>
       THEN /\ kpc' = "done"
            /\ UNCHANGED <<kstart, kvisited>>
       ELSE /\ kvisited' = kvisited \o ans.rows
            /\ IF IsNone(ans.next_start_pk)
               THEN kpc' = "done" /\ kstart' = kstart
               ELSE kpc' = "loop" /\ kstart' = Val(ans.next_start_pk)
    /\ UNCHANGED <<kbatch, krows>>

KNext ==
    \/ kpc = "idle" /\ \E b \in ((-1)..MaxBatchIn) \cup {100, 499, 500, 501, 1000} : \E n \in 0..MaxRows : ScanStart(b, n)
    \/ kpc = "loop" /\ \E ans \in RangeAnswers(krows, kstart, BatchLimit(kbatch)) : ScanBatch(ans)

\* ---------------------------------------------------------------------
\* Row codec: encode / decode / dict2row / row2dict
\* ---------------------------------------------------------------------
MaxStrLen == 2
MaxListLen == 2

\* Python values of the codec, tagged with their type. A str is the
\* sequence of its characters.
PyInt(n) == [t |-> "int", i |-> n]
PyStr(cs) == [t |-> "str", s |-> cs]
PyNone == [t |-> "none"]
PyList(vs) == [t |-> "list", l |-> vs]
PyTuple(vs) == [t |-> "tuple", u |-> vs]
\* A dict value is the sequence of its (key, value) pairs.
PyDict(ps) == [t |-> "dict", d |-> ps]

Digits == <<"0", "1", "2", "3", "4", "5", "6", "7", "8", "9">>
IsDigit(c) == \E d \in 1..Len(Digits) : Digits[d] = c
DigitVal(c) == (CHOOSE d \in 1..Len(Digits) : Digits[d] = c) - 1
RECURSIVE IntChars(_)
IntChars(n) ==
    IF n < Len(Digits) THEN <<Digits[n + 1]>>
    ELSE IntChars(n \div Len(Digits)) \o <<Digits[(n % Len(Digits)) + 1]>>

\* json.dumps: ints in decimal, strings quoted, None as null, lists and
\* tuples as arrays, dicts as objects whose keys are written as strings;
\* the separators are ", " and ": ". (The strings of the model hold no
\* quote and no backslash, so nothing is escaped.)
RECURSIVE dumps(_)
RECURSIVE DumpElems(_, _)
RECURSIVE DumpPairs(_, _)
DumpElems(vs, i) ==
    IF i > Len(vs) THEN <<>>
    ELSE (IF i > 1 THEN <<",", " ">> ELSE <<>>) \o dumps(vs[i]) \o DumpElems(vs, i + 1)
DumpPairs(ps, i) ==
    IF i > Len(ps) THEN <<>>
    ELSE (IF i > 1 THEN <<",", " ">> ELSE <<>>)
         \o <<"\"">> \o (IF ps[i][1].t = "str" THEN ps[i][1].s ELSE IntChars(ps[i][1].i)) \o <<"\"", ":", " ">> \o dumps(ps[i][2])
         \o DumpPairs(ps, i + 1)
dumps(x) ==
    CASE x.t = "int" -> IntChars(x.i)
      [] x.t = "str" -> <<"\"">> \o x.s \o <<"\"">>
      [] x.t = "none" -> <<"n", "u", "l", "l">>
      [] x.t = "list" -> <<"[">> \o DumpElems(x.l, 1) \o <<"]">>
      [] x.t = "tuple" -> <<"[">> \o DumpElems(x.u, 1) \o <<"]">>
      [] x.t = "dict" -> <<"{">> \o DumpPairs(x.d, 1) \o <<"}">>

\* json.loads: a recursive-descent parse of the whole text; anything else
\* than a JSON document raises.
ParseFail == [ok |-> FALSE]
ParseOk(v, p) == [ok |-> TRUE, val |-> v, pos |-> p]
RECURSIVE SkipWs(_, _)
SkipWs(s, i) == IF i <= Len(s) /\ s[i] = " " THEN SkipWs(s, i + 1) ELSE i
RECURSIVE ScanDigits(_, _, _)
ScanDigits(s, i, acc) ==
    IF i <= Len(s) /\ IsDigit(s[i]) THEN ScanDigits(s, i + 1, acc * 10 + DigitVal(s[i]))
    ELSE [val |-> acc, pos |-> i]
\* Position of the closing quote of a string that starts at i, 0 if none.
RECURSIVE ScanString(_, _)
ScanString(s, i) ==
    IF i > Len(s) THEN 0
    ELSE IF s[i] = "\"" THEN i ELSE ScanString(s, i + 1)
RECURSIVE ParseValue(_, _)
RECURSIVE ParseElems(_, _, _)
RECURSIVE ParsePairs(_, _, _)
ParseValue(s, i0) ==
    LET i == SkipWs(s, i0)
    IN IF i > Len(s) THEN ParseFail
       ELSE IF IsDigit(s[i])
       THEN IF s[i] = "0" /\ i < Len(s) /\ IsDigit(s[i + 1]) THEN ParseFail
            ELSE LET r == ScanDigits(s, i, 0) IN ParseOk(PyInt(r.val), r.pos)
       ELSE IF s[i] = "\""
       THEN LET j == ScanString(s, i + 1)
            IN IF j = 0 THEN ParseFail ELSE ParseOk(PyStr(SubSeq(s, i + 1, j - 1)), j + 1)
       ELSE IF s[i] = "n"
       THEN IF i + 3 <= Len(s) /\ SubSeq(s, i, i + 3) = <<"n", "u", "l", "l">>
            THEN ParseOk(PyNone, i + 4) ELSE ParseFail
       ELSE IF s[i] = "["
       THEN LET j == SkipWs(s, i + 1)
            IN IF j <= Len(s) /\ s[j] = "]" THEN ParseOk(PyList(<<>>), j + 1)
               ELSE ParseElems(s, i + 1, <<>>)
       ELSE IF s[i] = "{"
       THEN LET j == SkipWs(s, i + 1)
            IN IF j <= Len(s) /\ s[j] = "}" THEN ParseOk(PyDict(<<>>), j + 1)
               ELSE ParsePairs(s, i + 1, <<>>)
       ELSE ParseFail
ParseElems(s, i, acc) ==
    LET r == ParseValue(s, i)
    IN IF ~r.ok THEN ParseFail
       ELSE LET j == SkipWs(s, r.pos)
            IN IF j > Len(s) THEN ParseFail
               ELSE IF s[j] = "," THEN ParseElems(s, j + 1, Append(acc, r.val))
               ELSE IF s[j] = "]" THEN ParseOk(PyList(Append(acc, r.val)), j + 1)
               ELSE ParseFail
ParsePairs(s, i, acc) ==
    LET k == SkipWs(s, i)
    IN IF k > Len(s) \/ s[k] # "\"" THEN ParseFail
       ELSE LET kr == ParseValue(s, k)
            IN IF ~kr.ok THEN ParseFail
               ELSE LET c == SkipWs(s, kr.pos)
                    IN IF c > Len(s) \/ s[c] # ":" THEN ParseFail
                       ELSE LET vr == ParseValue(s, c + 1)
                            IN IF ~vr.ok THEN ParseFail
                               ELSE LET j == SkipWs(s, vr.pos)
                                        ps == Append(acc, <<kr.val, vr.val>>)
                                    IN IF j > Len(s) THEN ParseFail
                                       ELSE IF s[j] = "," THEN ParsePairs(s, j + 1, ps)
                                       ELSE IF s[j] = "}" THEN ParseOk(PyDict(ps), j + 1)
                                       ELSE ParseFail
loads(s) ==
    LET r == ParseValue(s, 1)
    IN IF r.ok /\ SkipWs(s, r.pos) > Len(s) THEN r ELSE ParseFail

\* encode: lists, tuples and dicts become their JSON text
encode(v) == IF v.t \in {"list", "tuple", "dict"} THEN PyStr(dumps(v)) ELSE v

\* (v.startswith('[') and v.endswith(']')) or (v.startswith('{') and v.endswith('}'))
Bracketed(cs) ==
    /\ Len(cs) >= 1
    /\ \/ cs[1] = "[" /\ cs[Len(cs)] = "]"
       \/ cs[1] = "{" /\ cs[Len(cs)] = "}"

\* decode without the JSON parse.
decodeNoParse(v) == v
\* decode: a bracketed str is parsed as JSON, and kept when the parse fails
decode(v) ==
    IF v.t = "str" /\ Bracketed(v.s)
    THEN (IF loads(v.s).ok THEN loads(v.s).val ELSE v)
    ELSE v

\* Store.dict2row: None values are skipped, primary-key fields go to the
\* primary key as they are, the others are encoded.
dict2row(d) ==
    LET kept == {k \in DOMAIN d : d[k] # PyNone}
    IN [primary_key |-> Items([k \in kept \cap PkSet |-> d[k]]),
        attribute_columns |-> [k \in kept \ PkSet |-> encode(d[k])]]

\* utils.dict2row: every primary-key field is popped (None when missing)
\* into the primary key, the other non-None values are encoded.
dict2row_utils(d) ==
    [primary_key |-> [i \in 1..Len(pks) |->
                        <<pks[i], IF pks[i] \in DOMAIN d THEN d[pks[i]] ELSE PyNone>>],
     attribute_columns |-> [k \in {c \in (DOMAIN d) \ PkSet : d[c] # PyNone} |-> encode(d[k])]]

\* row2dict on the values of the codec: d[f[0]] = decode(f[1]) for every
\* primary-key pair and every attribute column.
row2dict_decoded(row) ==
    LET raw == row2dict(row)
    IN [k \in DOMAIN raw |-> decode(raw[k])]

\* Values of the codec
RECURSIVE SeqsUpTo(_, _)
SeqsUpTo(S, n) ==
    IF n = 0 THEN {<<>>}
    ELSE SeqsUpTo(S, n - 1) \cup { Append(q, e) : q \in {r \in SeqsUpTo(S, n - 1) : Len(r) = n - 1}, e \in S }
CodecInputs ==
    LET strings == { PyStr(cs) : cs \in SeqsUpTo({"a", "1", "[", "]", "{", "}"}, MaxStrLen) }
        elems == {PyInt(1), PyStr(<<"a">>), PyNone, PyList(<<PyInt(1)>>), PyTuple(<<PyInt(1)>>), PyDict(<<>>)}
        structured ==
            { PyList(vs) : vs \in SeqsUpTo(elems, MaxListLen) }
            \cup { PyTuple(vs) : vs \in SeqsUpTo(elems, MaxListLen) }
            \cup { PyDict(<<>>) }
            \cup { PyDict(<< <<k, v>> >>) : k \in {PyStr(<<"a">>), PyInt(1)}, v \in elems }
        values == {PyInt(1), PyNone} \cup strings \cup structured
    IN { [k \in {"x"} |-> v] : v \in values }
       \cup { [k \in {"id", "x"} |-> IF k = "id" THEN i ELSE v] :
               i \in {PyInt(1), PyStr(<<"a">>)}, v \in values }
       \cup { [k \in {"id"} |-> i] : i \in {PyInt(1), PyNone} }

VARIABLES
    cpc,        \* "idle", "row" (the row is built) or "done" (it is read back)
    cvariant,   \* "store" for Store.dict2row, "utils" for utils.dict2row
    cattrs,     \* the attribute map given
    crow,       \* the Row built from it
    cback       \* the dict read back from the Row

cvars == <<cpc, cvariant, cattrs, crow, cback>>

CInit ==
    /\ cpc = "idle"
    /\ cvariant = "store"
    /\ cattrs = EmptyDict
    /\ crow = NoRow
    /\ cback = EmptyDict

\* toRow
ToRow(variant, d) ==
    /\ cpc = "idle"
    /\ cvariant' = variant
    /\ cattrs' = d
    /\ crow' = IF variant = "store" THEN dict2row(d) ELSE dict2row_utils(d)
    /\ cpc' = "row"
    /\ cback' = cback

\* fromRow of the row as it was written
FromRow ==
    /\ cpc = "row"
    /\ cback' = row2dict_decoded(crow)
    /\ cpc' = "done"
    /\ UNCHANGED <<cvariant, cattrs, crow>>

CNext ==
    \/ cpc = "idle" /\ \E variant \in {"store", "utils"} : \E d \in CodecInputs : ToRow(variant, d)
    \/ FromRow

\* ---------------------------------------------------------------------
\* lookup.build_tablestore_query
\* ---------------------------------------------------------------------
\* Python strings are sequences of characters here; True and False:
PyBool(b) == [t |-> "bool", b |-> b]

\* The query nodes, as the arguments their constructors are given
MatchAllQuery == [node |-> "MatchAll"]
TermQuery(f, v) == [node |-> "Term", field |-> f, value |-> v]
TermsQuery(f, vs) == [node |-> "Terms", field |-> f, values |-> vs]
RangeQuery(f, range_args) == [node |-> "Range", field |-> f, range_args |-> range_args]
WildcardQuery(f, pattern) == [node |-> "Wildcard", field |-> f, pattern |-> pattern]
ExistsQuery(f) == [node |-> "Exists", field |-> f]
BoolQuery(kwargs) == [node |-> "Bool", kwargs |-> kwargs]

\* ensure_list
ensure_list(v) ==
    CASE v.t = "none" -> <<>>
      [] v.t = "list" -> v.l
      [] v.t = "tuple" -> v.u
      [] OTHER -> <<v>>

\* key.split('__')
RECURSIVE SplitFrom(_, _, _)
SplitFrom(s, i, cur) ==
    IF i > Len(s) THEN <<cur>>
    ELSE IF i < Len(s) /\ s[i] = "_" /\ s[i + 1] = "_"
         THEN <<cur>> \o SplitFrom(s, i + 2, <<>>)
         ELSE SplitFrom(s, i + 1, Append(cur, s[i]))
split(s) == SplitFrom(s, 1, <<>>)

endswith(s, suffix) ==
    /\ Len(s) >= Len(suffix)
    /\ SubSeq(s, Len(s) - Len(suffix) + 1, Len(s)) = suffix

\* sv.strip()
RECURSIVE strip(_)
strip(s) ==
    IF s # <<>> /\ Head(s) = " " THEN strip(Tail(s))
    ELSE IF s # <<>> /\ s[Len(s)] = " " THEN strip(SubSeq(s, 1, Len(s) - 1))
    ELSE s

\* .replace('%', '*').replace('_', '?')
ReplaceWildcards(s) ==
    [i \in 1..Len(s) |-> IF s[i] = "%" THEN "*" ELSE IF s[i] = "_" THEN "?" ELSE s[i]]

\* str(value); a list of ints and an empty dict print as their JSON text
str(v) ==
    CASE v.t = "str" -> v.s
      [] v.t = "int" -> IntChars(v.i)
      [] v.t = "none" -> <<"N", "o", "n", "e">>
      [] v.t = "bool" -> IF v.b THEN <<"T", "r", "u", "e">> ELSE <<"F", "a", "l", "s", "e">>
      [] OTHER -> dumps(v)

\* The converter int of field_types: Some(result), or None when it raises
int(v) ==
    CASE v.t = "int" -> Some(v)
      [] v.t = "bool" -> Some(PyInt(IF v.b THEN 1 ELSE 0))
      [] v.t = "str" ->
            IF v.s # <<>> /\ \A i \in 1..Len(v.s) : IsDigit(v.s[i])
            THEN Some(PyInt(ScanDigits(v.s, 1, 0).val)) ELSE None
      [] OTHER -> None

\* Names the code compares with
SearchKey == <<"s", "e", "a", "r", "c", "h">>
NotSuffix == <<".", "n", "o", "t">>
Op ==
    [eq |-> <<"e", "q">>,
     ne |-> <<"n", "e">>,
     in |-> <<"i", "n">>,
     nin |-> <<"n", "i", "n">>,
     gt |-> <<"g", "t">>,
     gte |-> <<"g", "t", "e">>,
     lt |-> <<"l", "t">>,
     lte |-> <<"l", "t", "e">>,
     regex |-> <<"r", "e", "g", "e", "x">>,
     wildcard |-> <<"w", "i", "l", "d", "c", "a", "r", "d">>,
     exists |-> <<"e", "x", "i", "s", "t", "s">>]

\* value in ['0', 'false', False, 'False']; 0 == False in Python
InFalseList(v) ==
    \/ v.t = "str" /\ v.s \in {<<"0">>, <<"f", "a", "l", "s", "e">>, <<"F", "a", "l", "s", "e">>}
    \/ v.t = "bool" /\ ~v.b
    \/ v.t = "int" /\ v.i = 0

\* if fields and name not in fields, with fields = set(fields) if fields else None
NotAdmitted(fields, name) ==
    /\ ~IsNone(fields)
    /\ Val(fields) # {}
    /\ name \notin Val(fields)

\* Step 1: the should clauses of the global search
RECURSIVE ShouldFrom(_, _, _, _)
ShouldFrom(sv, search_fields, fields, i) ==
    LET replaced == ReplaceWildcards(strip(sv))
        pattern == IF endswith(replaced, <<"*">>) THEN replaced ELSE Append(replaced, "*")
    IN IF i > Len(search_fields) THEN <<>>
       ELSE (IF NotAdmitted(fields, search_fields[i]) THEN <<>>
             ELSE <<WildcardQuery(search_fields[i], pattern)>>)
            \o ShouldFrom(sv, search_fields, fields, i + 1)
should_queries(data, fields, search_fields) ==
    IF IsNone(search_fields) \/ Val(search_fields) = <<>> THEN <<>>
    ELSE LET at == {i \in 1..Len(data) : data[i][1] = SearchKey}
             sv == IF at = {} THEN PyNone ELSE data[CHOOSE i \in at : TRUE][2]
         IN IF sv.t = "str" /\ sv.s # <<>> /\ strip(sv.s) # <<>>
            THEN ShouldFrom(sv.s, Val(search_fields), fields, 1)
            ELSE <<>>

\* Step 2, one item of data: the clause it adds, if any
NoClause == [list |-> "none"]
Clause(is_not, query) == [list |-> IF is_not THEN "must_not" ELSE "must", query |-> query]
Converted(value, field_types, base_field) ==
    IF value.t = "dict" \/ IsNone(field_types) \/ base_field \notin DOMAIN Val(field_types)
    THEN Some(value)
    ELSE int(value)
WildcardPattern(value) ==
    LET pattern == ReplaceWildcards(str(value))
    IN IF \A i \in 1..Len(pattern) : pattern[i] \notin {"*", "?"}
       THEN Append(pattern, "*") ELSE pattern
QueryOf(op, base_field, value, is_not) ==
    CASE op = Op.eq -> Clause(is_not, TermQuery(base_field, value))
      [] op = Op.ne -> Clause(TRUE, TermQuery(base_field, value))
      [] op = Op.in ->
            IF ensure_list(value) # <<>>
            THEN Clause(is_not, TermsQuery(base_field, ensure_list(value))) ELSE NoClause
      [] op = Op.nin ->
            IF ensure_list(value) # <<>>
            THEN Clause(TRUE, TermsQuery(base_field, ensure_list(value))) ELSE NoClause
      [] op = Op.gt -> Clause(is_not, RangeQuery(base_field, [n \in {"gt"} |-> value]))
      [] op = Op.gte -> Clause(is_not, RangeQuery(base_field, [n \in {"gte"} |-> value]))
      [] op = Op.lt -> Clause(is_not, RangeQuery(base_field, [n \in {"lt"} |-> value]))
      [] op = Op.lte -> Clause(is_not, RangeQuery(base_field, [n \in {"lte"} |-> value]))
      [] op \in {Op.regex, Op.wildcard} ->
            Clause(is_not, WildcardQuery(base_field, WildcardPattern(value)))
      [] op = Op.exists -> Clause(is_not \/ InFalseList(value), ExistsQuery(base_field))
      [] OTHER -> Clause(is_not, TermQuery(base_field, value))
ItemClause(key, value, field_types, fields) ==
    LET parts == split(key)
        base_field == parts[1]
        op == IF Len(parts) > 1 THEN parts[Len(parts)] ELSE Op.eq
        conv == Converted(value, field_types, base_field)
        is_not == endswith(base_field, NotSuffix)
        stripped == IF is_not THEN SubSeq(base_field, 1, Len(base_field) - 4) ELSE base_field
    IN IF key = SearchKey THEN NoClause
       ELSE IF NotAdmitted(fields, base_field) THEN NoClause
       ELSE IF IsNone(conv) THEN NoClause
       ELSE QueryOf(op, stripped, Val(conv), is_not)

\* for key, value in data.items(): the queries appended to the list named
RECURSIVE QueriesFrom(_, _, _, _, _)
QueriesFrom(data, field_types, fields, list, i) ==
    IF i > Len(data) THEN <<>>
    ELSE LET c == ItemClause(data[i][1], data[i][2], field_types, fields)
         IN (IF c.list = list THEN <<c.query>> ELSE <<>>)
            \o QueriesFrom(data, field_types, fields, list, i + 1)

\* Step 3: assembly
BoolClausesNoMinimum(must, should, must_not) ==
    LET m == IF must # <<>> THEN [n \in {"must"} |-> must] ELSE EmptyDict
        s == IF should # <<>> THEN [n \in {"should"} |-> should] ELSE EmptyDict
        x == IF must_not # <<>> THEN [n \in {"must_not"} |-> must_not] ELSE EmptyDict
    IN Merge(Merge(m, s), x)
bool_clauses(must, should, must_not) ==
    LET m == IF must # <<>> THEN [n \in {"must"} |-> must] ELSE EmptyDict
        s == IF should # <<>>
             THEN [n \in {"should", "minimum_should_match"} |->
                        IF n = "should" THEN should ELSE 1]
             ELSE EmptyDict
        x == IF must_not # <<>> THEN [n \in {"must_not"} |-> must_not] ELSE EmptyDict
    IN Merge(Merge(m, s), x)

\* the elif: exactly one must query and nothing else
ReturnsLeafNever(clauses, must, should, must_not) == FALSE
ReturnsLeaf(clauses, must, should, must_not) ==
    /\ Cardinality(DOMAIN clauses) = 1
    /\ "must" \in DOMAIN clauses
    /\ Len(must) = 1
    /\ should = <<>>
    /\ must_not = <<>>

build_tablestore_query(data, field_types, fields, search_fields) ==
    LET must == QueriesFrom(data, field_types, fields, "must", 1)
        should == should_queries(data, fields, search_fields)
        must_not == QueriesFrom(data, field_types, fields, "must_not", 1)
        clauses == bool_clauses(must, should, must_not)
    IN IF data = <<>> THEN MatchAllQuery
       ELSE IF DOMAIN clauses = {} THEN MatchAllQuery
       ELSE IF ReturnsLeaf(clauses, must, should, must_not) THEN must[1]
       ELSE BoolQuery(clauses)

\* Inputs of build_tablestore_query
QInputs ==
    LET keys ==
            {<<"a">>, <<"a", "_", "_", "e", "q">>, <<"a", "_", "_", "n", "e">>,
             <<"a", "_", "_", "i", "n">>, <<"a", "_", "_", "n", "i", "n">>,
             <<"a", "_", "_", "g", "t">>, <<"a", "_", "_", "g", "t", "e">>,
             <<"a", "_", "_", "l", "t">>, <<"a", "_", "_", "l", "t", "e">>,
             <<"a", "_", "_", "r", "e", "g", "e", "x">>,
             <<"a", "_", "_", "w", "i", "l", "d", "c", "a", "r", "d">>,
             <<"a", "_", "_", "e", "x", "i", "s", "t", "s">>,
             <<"a", "_", "_", "l", "i", "k", "e">>, <<"a", ".", "n", "o", "t">>,
             <<"a", ".", "n", "o", "t", "_", "_", "g", "t">>,
             <<"a", ".", "n", "o", "t", "_", "_", "e", "x", "i", "s", "t", "s">>,
             <<"b">>, <<"b", "_", "_", "n", "e">>,
             <<"a", "_", "_", "b", "_", "_", "i", "n">>}
        values ==
            {PyStr(<<"v">>), PyStr(<<"a", "%">>), PyStr(<<"a", "_">>), PyStr(<<"0">>), PyStr(<<"f", "a", "l", "s", "e">>),
             PyInt(0), PyInt(1), PyBool(FALSE), PyBool(TRUE), PyList(<<>>),
             PyList(<<PyInt(1)>>), PyNone, PyDict(<<>>)}
        searchValues ==
            {PyStr(<<"v">>), PyStr(<<" ", "v", "_">>), PyStr(<<"v", "*">>), PyStr(<<" ">>), PyStr(<<>>), PyInt(1), PyNone}
        fewKeys ==
            {<<"a">>, <<"a", "_", "_", "n", "e">>, <<"b", "_", "_", "i", "n">>,
             <<"a", ".", "n", "o", "t">>,
             <<"b", "_", "_", "e", "x", "i", "s", "t", "s">>}
        fewValues == {PyStr(<<"v">>), PyList(<<>>), PyStr(<<"0">>)}
        pairs ==
            { d \in { << <<k1, v1>>, <<k2, v2>> >> :
                        k1 \in fewKeys, k2 \in fewKeys, v1 \in fewValues, v2 \in fewValues } :
                d[1][1] # d[2][1] }
        datas ==
            {<<>>}
            \cup { << <<k, v>> >> : k \in keys, v \in values }
            \cup { << <<SearchKey, sv>> >> : sv \in searchValues }
            \cup pairs
            \cup { << <<SearchKey, sv>>, <<k, v>> >> :
                    sv \in searchValues, k \in fewKeys, v \in fewValues }
            \cup { << <<SearchKey, sv>> >> \o d : sv \in {PyStr(<<"v">>), PyStr(<<" ">>)}, d \in pairs }
    IN { [data |-> d, field_types |-> ft, fields |-> fs, search_fields |-> sf] :
            d \in datas,
            ft \in {None, Some([f \in {<<"a">>} |-> "int"])},
            fs \in {None, Some({}), Some({<<"a">>}), Some({<<"b">>}), Some({<<"a">>, <<"b">>, <<"a", ".", "n", "o", "t">>})},
            sf \in {None, Some(<<>>), Some(<<<<"a">>>>), Some(<<<<"a">>, <<"b">>>>)} }

VARIABLES
    qpc,        \* "idle", or "done" once build_tablestore_query returned
    qargs,      \* its arguments
    qmust,      \* must_queries when the loops ended
    qshould,    \* should_queries when the loops ended
    qmust_not,  \* must_not_queries when the loops ended
    qout        \* the query returned

qvars == <<qpc, qargs, qmust, qshould, qmust_not, qout>>

QInit ==
    /\ qpc = "idle"
    /\ qargs = [data |-> <<>>, field_types |-> None, fields |-> None, search_fields |-> None]
    /\ qmust = <<>>
    /\ qshould = <<>>
    /\ qmust_not = <<>>
    /\ qout = MatchAllQuery

\* One call of build_tablestore_query
Compile(a) ==
    /\ qpc = "idle"
    /\ qargs' = a
    /\ qmust' = IF a.data = <<>> THEN <<>> ELSE QueriesFrom(a.data, a.field_types, a.fields, "must", 1)
    /\ qshould' = IF a.data = <<>> THEN <<>> ELSE should_queries(a.data, a.fields, a.search_fields)
    /\ qmust_not' = IF a.data = <<>> THEN <<>> ELSE QueriesFrom(a.data, a.field_types, a.fields, "must_not", 1)
    /\ qout' = build_tablestore_query(a.data, a.field_types, a.fields, a.search_fields)
    /\ qpc' = "done"

QNext == qpc = "idle" /\ \E a \in QInputs : Compile(a)

\* ---------------------------------------------------------------------
\* Inputs of upsert with an increment action, and with insert-only fields
\* ---------------------------------------------------------------------
\* upsert({'id': 1}, increment={'c': d})
INext ==
    \/ \E p \in Calls : pc[p] = "idle" /\ \E d \in Vals :
          UpsertCall(p, [cond |-> [n \in {"id"} |-> 1], put |-> EmptyDict,
                         set_on_insert |-> EmptyDict,
                         kwargs |-> [n \in {"increment"} |-> [m \in {"c"} |-> d]]])
    \/ \E p \in Calls : PutRowOk(p)
    \/ \E p \in Calls : PutRowExists(p)
    \/ \E p \in Calls : PutRowFails(p)
    \/ \E p \in Calls : UpdateRowOk(p)
    \/ \E p \in Calls : UpdateRowFails(p)

\* upsert(cond, put, set_on_insert): an insert-only column s, alone, with
\* a non-key condition field, and beside a column x that put has too
ONext ==
    \/ \E p \in Calls : pc[p] = "idle" /\
          \E a \in { [cond |-> [n \in {"id"} |-> 1], put |-> [n \in {"x"} |-> 1],
                      set_on_insert |-> [n \in {"s"} |-> v], kwargs |-> EmptyDict] : v \in Vals }
                  \cup { [cond |-> [n \in {"id", "t"} |-> 1], put |-> EmptyDict,
                          set_on_insert |-> [n \in {"s"} |-> 1], kwargs |-> EmptyDict] }
                  \cup { [cond |-> [n \in {"id"} |-> 1], put |-> [n \in {"x"} |-> 1],
                          set_on_insert |-> [n \in {"s", "x"} |-> 2], kwargs |-> EmptyDict] } :
             UpsertCall(p, a)
    \/ \E p \in Calls : PutRowOk(p)
    \/ \E p \in Calls : PutRowExists(p)
    \/ \E p \in Calls : PutRowFails(p)
    \/ \E p \in Calls : UpdateRowOk(p)
    \/ \E p \in Calls : UpdateRowFails(p)

\* ---------------------------------------------------------------------
\* Specifications
\* ---------------------------------------------------------------------
vars == <<uvars, svars, fvars, kvars, cvars, qvars>>

Init == UInit /\ SInit /\ FInit /\ KInit /\ CInit /\ QInit

UNext ==
    \/ \E p \in Calls : pc[p] = "idle" /\ \E a \in UpsertInputs : UpsertCall(p, a)
    \/ \E p \in Calls : PutRowOk(p)
    \/ \E p \in Calls : PutRowExists(p)
    \/ \E p \in Calls : PutRowFails(p)
    \/ \E p \in Calls : UpdateRowOk(p)
    \/ \E p \in Calls : UpdateRowFails(p)
    \/ \E k \in Keys : Get(k)

UpsertSpec == Init /\ [][UNext /\ UNCHANGED <<svars, fvars, kvars, cvars, qvars>>]_vars

SearchSpec == Init /\ [][SNext /\ UNCHANGED <<uvars, fvars, kvars, cvars, qvars>>]_vars

FindSpec == Init /\ [][FNext /\ UNCHANGED <<uvars, svars, kvars, cvars, qvars>>]_vars

ScanSpec == Init /\ [][KNext /\ UNCHANGED <<uvars, svars, fvars, cvars, qvars>>]_vars

CodecSpec == Init /\ [][CNext /\ UNCHANGED <<uvars, svars, fvars, kvars, qvars>>]_vars

QuerySpec == Init /\ [][QNext /\ UNCHANGED <<uvars, svars, fvars, kvars, cvars>>]_vars

IncrementSpec == Init /\ [][INext /\ UNCHANGED <<svars, fvars, kvars, cvars, qvars>>]_vars

InsertOnlySpec == Init /\ [][ONext /\ UNCHANGED <<svars, fvars, kvars, cvars, qvars>>]_vars

\* ---------------------------------------------------------------------
\* Properties of upsert
\* ---------------------------------------------------------------------
Valid(p) == pc[p] # "idle" /\ ~MissingPk(args[p].cond)
Done(p) == pc[p] = "done"
Raised(p) == ret[p].kind = "raise"
KeyOfCall(p) == args[p].cond["id"]
\* The backend answered the call with nothing but success or the
\* row-already-exists precondition failure.
NoOtherFault(p) ==
    /\ IsNone(fault[p]) \/ IsRowExists(Val(fault[p]))
    /\ IsNone(ufault[p])
\* The inserted flag of a returned call: the acknowledgment upsert returns
\* is that of put_row (inserted) or that of update_row (updated).
Inserted(p) == path[p] = "insert"

\* C1: the first upsert on an absent row inserts and reports inserted=true,
\* every later upsert on that key returns with inserted=false, and get
\* returns the most recently put values.
C1_UpsertThenUpsertThenGet ==
    /\ \A p \in Calls : (Done(p) /\ Valid(p) /\ NoOtherFault(p)) =>
          /\ (~existed[p] /\ IsNone(fault[p])) => (ret[p] = Ack /\ Inserted(p))
          /\ existed[p] => (~Raised(p) /\ ~Inserted(p) /\ path[p] = "update")
    /\ \A k \in Keys : (~IsNone(got[k]) /\ ~IsNone(lastOk[k])) =>
          \A c \in DOMAIN Val(lastOk[k]) :
              c \in DOMAIN Val(got[k]) /\ Val(got[k])[c] = Val(lastOk[k])[c]

\* C2: when put_row is rejected because the row already exists, upsert
\* does not raise that error and proceeds to the update path, whatever the
\* message of the error.
C2_RowExistsFallsThrough ==
    \A p \in Calls : (~IsNone(fault[p]) /\ IsRowExists(Val(fault[p]))) =>
        /\ path[p] = "update"
        /\ ret[p] # Raise(Val(fault[p]))

\* C3: when put_row fails with any error other than row-already-exists,
\* upsert raises that error, issues no update_row and does not repeat
\* put_row.
C3_OtherErrorPropagates ==
    \A p \in Calls : (~IsNone(fault[p]) /\ ~IsRowExists(Val(fault[p]))) =>
        /\ pc[p] = "done"
        /\ ret[p] = Raise(Val(fault[p]))
        /\ updCalls[p] = 0
        /\ putCalls[p] = 1

\* C4: an upsert whose condition fields lack a primary-key field raises the
\* invalid-argument error, makes no backend call and leaves the table as
\* it was.
C4_MissingKeyRejected ==
    [][\A p \in Calls :
          (pc[p] = "idle" /\ pc'[p] # "idle" /\ \E f \in PkSet : f \notin DOMAIN args'[p].cond) =>
              /\ pc'[p] = "done"
              /\ ret'[p].kind = "raise"
              /\ ret'[p].err.type = "ValueError"
              /\ putCalls'[p] = 0
              /\ updCalls'[p] = 0
              /\ putCalls' = putCalls
              /\ updCalls' = updCalls
              /\ table' = table]_vars

\* A call without its key was rejected while the table already holds a row.
C4_Witness ==
    \E p \in Calls :
        /\ pc[p] = "done"
        /\ "id" \notin DOMAIN args[p].cond
        /\ ret[p].kind = "raise"
        /\ \E k \in Keys : ~IsNone(table[k])

\* C5: of the upserts that race on a key whose row is absent, exactly one
\* inserts, the others take the update branch, none fails, and the final
\* row has the put columns of all of them.
Racers(k) == {p \in Calls : Valid(p) /\ KeyOfCall(p) = k /\ ~existed[p]}
C5_RaceOnAbsentRow ==
    \A k \in Keys :
        (/\ Cardinality(Racers(k)) >= 2
         /\ \A p \in Calls : Valid(p) => (Done(p) /\ NoOtherFault(p)))
        => /\ Cardinality({p \in Racers(k) : Inserted(p)}) = 1
           /\ \A p \in Racers(k) : ~Inserted(p) => path[p] = "update"
           /\ \A p \in Racers(k) : ~Raised(p)
           /\ ~IsNone(table[k])
           /\ \A p \in Racers(k) : DOMAIN PutFields(args[p].put) \subseteq DOMAIN Val(table[k])

\* ---------------------------------------------------------------------
\* Properties of search
\* ---------------------------------------------------------------------
Returned == spc = "done" /\ IsNone(sout.raised)
RejectedAs(message) ==
    /\ spc = "done"
    /\ ~IsNone(sout.raised)
    /\ Val(sout.raised).type = "ValueError"
    /\ Val(sout.raised).message = message
PageMode == spc = "done" /\ IsNone(sargs.next_token)
TokenMode == spc = "done" /\ ~IsNone(sargs.next_token)
\* The page number and the page size the call works with.
GivenPageNo ==
    IF sargs.page_no = None THEN 1
    ELSE IF sargs.page_no[1] <= 0 THEN 1 ELSE sargs.page_no[1]
GivenPageSize == IF sargs.page_size >= 1 THEN sargs.page_size ELSE 10

\* C6: a search given both a page number and a continuation token fails
\* with the invalid-argument error before any backend search call.
C6_BothCursorsRejected ==
    (spc = "done" /\ sargs.page_no # None /\ sargs.next_token # None) =>
        /\ RejectedAs("Cannot use both page_no and token")
        /\ sout.calls = 0
        /\ sout.query = None
        /\ sout.result = None

C6_Witness ==
    /\ spc = "done"
    /\ sargs.page_no = Some(2)
    /\ sargs.next_token = Some("t1")
    /\ sargs.max_page_no_limit = FALSE
    /\ RejectedAs("Cannot use both page_no and token")

C8_ReportedMaxPageIsTight ==
    RejectedAs("Page number too large") =>
        LET m == Val(sout.raised).max_page_no
            at(n) == search([sargs EXCEPT !.page_no = Some(n)], sbackend)
            tooLarge(o) == ~IsNone(o.raised) /\ Val(o.raised).type = "ValueError"
        IN /\ m >= 1
           /\ ~tooLarge(at(m))
           /\ (m - 1) * GivenPageSize <= 10000
           /\ tooLarge(at(m + 1))
           /\ m * GivenPageSize > 10000

\* pageNo=202, pageSize=50 is rejected and the error reports page 201.
C8_Witness ==
    /\ RejectedAs("Page number too large")
    /\ sargs.page_no = Some(202)
    /\ sargs.page_size = 50
    /\ Val(sout.raised).max_page_no = 201

\* C9: a page-number-mode response is consistent and comes from the one
\* search call: totalPages = ceil(total / pageSize), 1 when total = 0;
\* hasPrev iff pageNo > 1; hasNext iff pageNo < totalPages; canJumpToPage
\* iff offset <= 10000; hasMore iff nextToken is non-empty.
C9_PageModeResponse ==
    (PageMode /\ Returned) =>
        LET r == Val(sout.result)
            tp == r.total_pages
        IN /\ sout.calls = 1
           /\ sbackend.ok
           /\ r.total = sbackend.rs.total_count
           /\ r.next_token = sbackend.rs.next_token
           /\ r.page_size = GivenPageSize
           /\ r.page_no = Some(GivenPageNo)
           /\ r.total = 0 => tp = 1
           /\ r.total > 0 => (tp * r.page_size >= r.total /\ (tp - 1) * r.page_size < r.total)
           /\ r.has_prev <=> GivenPageNo > 1
           /\ r.has_next <=> GivenPageNo < tp
           /\ r.can_jump_to_page <=> (GivenPageNo - 1) * GivenPageSize <= 10000
           /\ r.has_more <=> (r.next_token # None /\ r.next_token # Some(""))

\* Page 2 of 3 (7 rows, 3 a page), with a continuation token.
C9_Witness ==
    /\ PageMode /\ Returned
    /\ sargs.page_no = Some(2)
    /\ sargs.page_size = 3
    /\ Val(sout.result).total = 7
    /\ Val(sout.result).total_pages = 3
    /\ Val(sout.result).has_prev
    /\ Val(sout.result).has_next
    /\ Val(sout.result).has_more

\* C10: a token-mode response carries pageNo = null and hasPrev, hasNext,
\* canJumpToPage = false, the four fields all being present.
C10_TokenModeResponse ==
    (TokenMode /\ Returned) =>
        LET r == Val(sout.result)
        IN /\ {"page_no", "has_prev", "has_next", "can_jump_to_page"} \subseteq DOMAIN r
           /\ r.page_no = None
           /\ r.has_prev = FALSE
           /\ r.has_next = FALSE
           /\ r.can_jump_to_page = FALSE

\* ---------------------------------------------------------------------
\* Properties of find
\* ---------------------------------------------------------------------
\* The items of all the pages of the backend's result, in order.
AllItems(lens) == [n \in 1..SumTo(lens, Len(lens)) |-> row2dict(RowOf(n))]
\* find has ended, the backend failed no call, and search accepts the
\* cursor input for the first page.
FindEnded ==
    /\ fpc = "done"
    /\ ~ffault
    /\ ~(fargs.page_no # None /\ fargs.next_token # None)

\* C11: find yields the first page's items and then, while the latest
\* response carries a non-empty token, searches again with exactly that
\* token: over a result of N pages it yields all the items in order with
\* exactly N search calls, and terminates.
C11_FindYieldsAllPages ==
    FindEnded =>
        /\ fraised = None
        /\ fyield = AllItems(fdata)
        /\ fcalls = Len(fdata)
        /\ Len(fqueries) = Len(fdata)
        /\ \A i \in 2..Len(fqueries) :
              /\ "next_token" \in DOMAIN fqueries[i]
              /\ fqueries[i].next_token = TokenNames[i - 1]

\* C19: find accepts every cursor input search accepts for the first page:
\* with an explicit page number the follow-up call is issued in token mode
\* and succeeds, and find raises no error by its own continuation step.
C19_FindAcceptsPageNo ==
    (FindEnded /\ fargs.page_no # None /\ Len(fdata) >= 2) =>
        /\ fraised = None
        /\ Len(fqueries) >= 2
        /\ "next_token" \in DOMAIN fqueries[2]

\* ---------------------------------------------------------------------
\* Properties of all
\* ---------------------------------------------------------------------
\* C12: a scan iterated to completion over an unchanging table has visited
\* every row exactly once, in ascending key order, however the backend
\* splits the range into batches, a batch of zero rows with a continuation
\* key included.
C12_ScanVisitsEveryRow ==
    kpc = "done" => kvisited = [k \in 1..krows |-> k]

\* C13 as claimed: every get_range call carries the limit
\* min(max(batchSize, 1), 500).
C13_LimitClampedToOne ==
    \A i \in 1..Len(klimits) :
        LET low == IF kbatch > 1 THEN kbatch ELSE 1
        IN klimits[i] = IF low < 500 THEN low ELSE 500

\* C13, amended: every get_range call carries the limit 100 when batchSize
\* is below 1, 500 when it is above 500, and batchSize otherwise.
C13_LimitClamp ==
    \A i \in 1..Len(klimits) :
        /\ kbatch < 1 => klimits[i] = 100
        /\ kbatch > 500 => klimits[i] = 500
        /\ (kbatch >= 1 /\ kbatch <= 500) => klimits[i] = kbatch

\* A scan called with batch_size=1000 has issued two calls of limit 500.
C13_Witness ==
    /\ kbatch = 1000
    /\ klimits = <<500, 500>>

\* ---------------------------------------------------------------------
\* Properties of the row codec
\* ---------------------------------------------------------------------
IsScalar(v) == v.t \in {"int", "str", "none"}
\* A scalar that is not a string looking JSON-bracketed.
PlainScalar(v) ==
    v.t = "str" => ~(/\ v.s # <<>>
                     /\ \/ Head(v.s) = "[" /\ v.s[Len(v.s)] = "]"
                        \/ Head(v.s) = "{" /\ v.s[Len(v.s)] = "}")
\* A value JSON returns as it was: lists and string-keyed dicts of such
\* values, strings, ints and None; no tuple, no other dict key.
RECURSIVE JsonNative(_)
JsonNative(v) ==
    CASE v.t = "list" -> \A i \in 1..Len(v.l) : JsonNative(v.l[i])
      [] v.t = "dict" -> \A i \in 1..Len(v.d) : v.d[i][1].t = "str" /\ JsonNative(v.d[i][2])
      [] v.t = "tuple" -> FALSE
      [] OTHER -> TRUE

\* C14 as claimed: for every attribute map whose scalar values are not
\* bracketed strings (the structured ones being JSON-serializable),
\* fromRow(toRow(attrs)) = attrs.
C14_RoundTrip ==
    (cpc = "done" /\ \A k \in DOMAIN cattrs : IsScalar(cattrs[k]) => PlainScalar(cattrs[k]))
        => cback = cattrs

\* C14, amended: the round trip holds for the attribute maps that moreover
\* have every primary-key field, no None value, and whose structured
\* values are JSON-native (no tuple, no non-string dict key).
C14_RoundTripNative ==
    (/\ cpc = "done"
     /\ PkSet \subseteq DOMAIN cattrs
     /\ \A k \in DOMAIN cattrs :
          /\ cattrs[k].t # "none"
          /\ IsScalar(cattrs[k]) => PlainScalar(cattrs[k])
          /\ ~IsScalar(cattrs[k]) => JsonNative(cattrs[k]))
        => cback = cattrs

\* A list of an int and a None was written as JSON text and read back.
C14_Witness ==
    /\ cpc = "done"
    /\ cattrs = [k \in {"id", "x"} |-> IF k = "id" THEN PyStr(<<"a">>)
                                       ELSE PyList(<<PyInt(1), PyNone>>)]
    /\ crow.attribute_columns["x"].t = "str"
    /\ cback = cattrs

\* ---------------------------------------------------------------------
\* Properties of the rows upsert sends
\* ---------------------------------------------------------------------
\* The primary-key pairs are exactly the table's primary-key fields, in
\* order, each with a value.
FullPrimaryKey(row) ==
    /\ Len(row.primary_key) = Len(pks)
    /\ \A i \in 1..Len(pks) :
          /\ row.primary_key[i][1] = pks[i]
          /\ row.primary_key[i][2] \in Keys
\* Column names of an update Row: the names of the pairs of its lists.
UpdateColumnNames(row) ==
    UNION { { row.attribute_columns[n][i][1] : i \in 1..Len(row.attribute_columns[n]) } :
              n \in DOMAIN row.attribute_columns }

\* C15: every Row upsert sends, to put_row and to update_row, has the
\* table's primary-key fields as its primary key, all populated, and no
\* attribute column named after a primary-key field.
C15_RowInvariant ==
    \A p \in Calls :
        /\ putCalls[p] > 0 =>
              /\ FullPrimaryKey(InsertRow(args[p]))
              /\ DOMAIN InsertRow(args[p]).attribute_columns \cap PkSet = {}
        /\ updCalls[p] > 0 =>
              /\ FullPrimaryKey(updRow[p])
              /\ UpdateColumnNames(updRow[p]) \cap PkSet = {}

\* ---------------------------------------------------------------------
\* Properties of build_tablestore_query
\* ---------------------------------------------------------------------
RecognizedOps == { Op[n] : n \in DOMAIN Op }
\* The leaf the operator table gives an operator
LeafOf(op) ==
    CASE op \in {Op.eq, Op.ne} -> "Term"
      [] op \in {Op.in, Op.nin} -> "Terms"
      [] op \in {Op.gt, Op.gte, Op.lt, Op.lte} -> "Range"
      [] op \in {Op.regex, Op.wildcard} -> "Wildcard"
      [] OTHER -> "Exists"
\* The call was given one field__op pair with a recognized op, and the
\* whitelist (if any) admits the field.
SinglePair ==
    /\ qpc = "done"
    /\ Len(qargs.data) = 1
    /\ Len(split(qargs.data[1][1])) = 2
    /\ split(qargs.data[1][1])[2] \in RecognizedOps
    /\ ~NotAdmitted(qargs.fields, split(qargs.data[1][1])[1])
PairField == split(qargs.data[1][1])[1]
PairOp == split(qargs.data[1][1])[2]
PairValue == Converted(qargs.data[1][2], qargs.field_types, PairField)

\* C16 as claimed: a single recognized field__op pair whose field the
\* whitelist admits compiles to the operator's leaf itself, never to a
\* Bool.
C16_SinglePairIsLeaf ==
    SinglePair => qout.node = LeafOf(PairOp)

\* C16, amended: the pair compiles to the leaf itself when the operator
\* is not negating (eq, in, gt, gte, lt, lte, regex, wildcard, exists of
\* a value not false-like) and the field does not end in '.not'; to a
\* Bool whose only clause is must_not = [leaf] when it is negating (ne,
\* nin, exists of a false-like value, or a '.not' field); and to MatchAll
\* when the term is dropped (the converter raised, or in/nin of an empty
\* list).
C16_SinglePairLeafOrNegation ==
    SinglePair =>
        LET dropped == \/ IsNone(PairValue)
                       \/ PairOp \in {Op.in, Op.nin} /\ ensure_list(Val(PairValue)) = <<>>
            negating == \/ PairOp \in {Op.ne, Op.nin}
                        \/ PairOp = Op.exists /\ InFalseList(Val(PairValue))
                        \/ endswith(PairField, NotSuffix)
        IN IF dropped THEN qout = MatchAllQuery
           ELSE IF negating
                THEN /\ qout.node = "Bool"
                     /\ DOMAIN qout.kwargs = {"must_not"}
                     /\ Len(qout.kwargs["must_not"]) = 1
                     /\ qout.kwargs["must_not"][1].node = LeafOf(PairOp)
                ELSE /\ qout.node = LeafOf(PairOp)
                     /\ qout.field = PairField

\* a__gte = 1 with whitelist [a] came out as the Range leaf on a.
C16_Witness ==
    /\ SinglePair
    /\ PairOp = Op.gte
    /\ qargs.fields = Some({<<"a">>})
    /\ qout = RangeQuery(<<"a">>, [n \in {"gte"} |-> PyInt(1)])

Populated ==
    (IF qmust # <<>> THEN {"must"} ELSE {})
    \cup (IF qshould # <<>> THEN {"should"} ELSE {})
    \cup (IF qmust_not # <<>> THEN {"must_not"} ELSE {})
ListOf(category) ==
    CASE category = "must" -> qmust
      [] category = "should" -> qshould
      [] OTHER -> qmust_not

\* C17: when two or more of must, should, must_not are populated the
\* query returned is a Bool with exactly the populated categories, and
\* minimum_should_match = 1 exactly when should is populated; when none
\* is populated the query returned is MatchAll.
C17_BoolHasPopulatedCategories ==
    qpc = "done" =>
        /\ Cardinality(Populated) >= 2 =>
              /\ qout.node = "Bool"
              /\ DOMAIN qout.kwargs \ {"minimum_should_match"} = Populated
              /\ \A c \in Populated : qout.kwargs[c] = ListOf(c)
              /\ "should" \in Populated =>
                    /\ "minimum_should_match" \in DOMAIN qout.kwargs
                    /\ qout.kwargs["minimum_should_match"] = 1
              /\ "should" \notin Populated => "minimum_should_match" \notin DOMAIN qout.kwargs
        /\ Populated = {} => qout = MatchAllQuery

\* A search value with one admitted term and one negated term filled the
\* three categories.
C17_Witness ==
    /\ qpc = "done"
    /\ Len(qargs.data) = 3
    /\ Populated = {"must", "should", "must_not"}
    /\ qout.node = "Bool"
    /\ Len(qout.kwargs["should"]) = 2
    /\ qout.kwargs["minimum_should_match"] = 1

\* ---------------------------------------------------------------------
\* Properties of upsert with an increment action
\* ---------------------------------------------------------------------
IncrementOf(p) == args[p].kwargs["increment"]["c"]
RECURSIVE SumOfIncrements(_)
SumOfIncrements(n) == IF n = 0 THEN 0 ELSE IncrementOf(n) + SumOfIncrements(n - 1)

\* C18: once every call of a set of concurrent upserts incrementing the
\* counter c of one key (absent at first) has completed, the backend
\* having answered nothing but success or row-already-exists, the stored
\* counter is the sum of their increments.
C18_NoIncrementLost ==
    (\A p \in Calls : Valid(p) /\ Done(p) /\ NoOtherFault(p))
        => /\ ~IsNone(table[1])
           /\ "c" \in DOMAIN Val(table[1])
           /\ Val(table[1])["c"] = SumOfIncrements(MaxCalls)

\* ---------------------------------------------------------------------
\* Properties of upsert with insert-only fields
\* ---------------------------------------------------------------------
\* Columns the update branch may write: the put list, the other action
\* lists, the non-key condition fields.
UpdateMayWrite(a) ==
    DOMAIN PutFields(a.put)
    \cup UNION { DOMAIN a.kwargs[n] : n \in DOMAIN a.kwargs }
    \cup (DOMAIN a.cond \ PkSet)
\* A column as the backend holds it, None when the row or the column is absent
Stored(rowOpt, n) ==
    IF IsNone(rowOpt) THEN None
    ELSE IF n \in DOMAIN Val(rowOpt) THEN Some(Val(rowOpt)[n]) ELSE None

\* C20: the Row a call sends to update_row has no column that is only in
\* set_on_insert and only columns of the put list, the other action
\* lists and the non-key condition fields; the update_row step leaves
\* every other column of an existing row as it was; and a column that is
\* only in set_on_insert is written only by an accepted put_row.
C20_InsertOnlyFrame ==
    [][\A p \in Calls :
          LET a == args[p]
              k == a.cond["id"]
              onlyInsert == DOMAIN a.set_on_insert \ UpdateMayWrite(a)
          IN /\ (pc[p] = "update_row" /\ pc'[p] = "done") =>
                   /\ UpdateColumnNames(updRow[p]) \cap onlyInsert = {}
                   /\ UpdateColumnNames(updRow[p]) \subseteq UpdateMayWrite(a)
                   /\ \A n \in {"id", "x", "s", "t", "c"} \ UpdateMayWrite(a) :
                         ~IsNone(table[k]) => Stored(table'[k], n) = Stored(table[k], n)
             /\ (pc[p] = "put_row" /\ pc'[p] = "done" /\ ~IsNone(table[k])) =>
                   \A n \in onlyInsert : Stored(table'[k], n) = Stored(table[k], n)
      ]_vars

\* A row was inserted with s = 1; a later upsert carrying set_on_insert
\* s = 2 found it, went through update_row, and s is still 1.
C20_Witness ==
    \E p \in Calls :
        /\ Done(p) /\ existed[p] /\ path[p] = "update"
        /\ updCalls[p] = 1 /\ IsNone(ufault[p])
        /\ args[p].set_on_insert = [n \in {"s"} |-> 2]
        /\ Val(table[1])["s"] = 1
        /\ Val(table[1])["x"] = 1

====
